---- MODULE Spec2Model ----
(***************************************************************************)
(* CloudSound analytics service: the playback_events store, the           *)
(* PlaybackEventService (create / list / statistics) and the Kafka        *)
(* PlaybackEventConsumer loop that feeds it.                               *)
(***************************************************************************)
EXTENDS Integers, Sequences, FiniteSets, TLC

\* ------------------------------------------------------------------ bounds
MaxRows == 2       \* rows the store may hold
MaxMsgs == 2       \* messages the source delivers
MaxTime == 1       \* last instant of the clock
MaxLimit == 1      \* largest explicit limit argument
HexLen == 2        \* hex digits of an identifier's text form (uuid: 32)
MaxStarts == 2     \* calls of start() made on the consumer

\* ------------------------------------------------------------ value domains
\* Python None / SQL NULL; lies outside every value domain below
None == -1

\* identifiers are the integers a UUID denotes (UUID.int); 0 is the nil UUID
Stations == {0, 1}          \* rows of radio_stations (owned upstream)
Tracks == {0, 1}            \* rows of tracks (owned upstream)
GhostId == 2                \* a well-formed identifier no upstream row has
Durations == {3}            \* duration_seconds values that occur
DefaultLimit == 100         \* limit: int = 100

\* -------------------------------------------------------------------- state
VARIABLES
    rows,      \* table playback_events: a set of row records
    nextId,    \* the next generated primary key (UUIDMixin)
    now,       \* datetime.utcnow()
    resp,      \* what the service call made in this step returned
    hpc,       \* process host (lifespan): "init", "serving"
    cpc,       \* consumer thread: where start() stands
    running,   \* PlaybackEventConsumer.running
    conn,      \* PlaybackEventConsumer.consumer: "new", "open", "closed"
    loop,      \* PlaybackEventConsumer.loop: "none", "open", "closed"
    cur,       \* the message the for loop holds
    task,      \* the process_message coroutine the event loop is running
    counter,   \* kafka_messages_consumed
    fetched,   \* history: messages consume() has yielded
    events,    \* history: begin / end of each process_message run
    _consumer, \* the module global _consumer: None or an instance
    _consumer_thread, \* main._consumer_thread: None or the instance it runs
    made,      \* history: PlaybackEventConsumer instances constructed
    gc,        \* each caller of get_consumer(): where its call stands
    got,       \* each caller of get_consumer(): what its last call returned
    starts,    \* history: calls of start() made
    late,      \* history: the last fetch completed with running false
    stopReq    \* history: stop() was called since start() was last launched

storeVars == <<rows, nextId>>
singletonVars == <<_consumer, _consumer_thread, made, gc, got>>
consumerVars == <<hpc, cpc, running, conn, loop, cur, task, counter, fetched,
                  events, singletonVars, starts, late, stopReq>>
vars == <<rows, nextId, now, resp, hpc, cpc, running, conn, loop, cur, task,
          counter, fetched, events, _consumer, _consumer_thread, made, gc, got,
          starts, late, stopReq>>

NoResp == [op |-> "none"]
NoMsg == [none |-> TRUE]
NoTask == [pc |-> "none"]

\* ----------------------------------------------------------- storage layer
\* faulty variant: the timestamp is left at a default instead of the call's instant
PlaybackEventEpoch(id, station_id, track_id, timestamp, duration_seconds) ==
    [id |-> id, station_id |-> station_id, track_id |-> track_id,
     timestamp |-> 0, duration_seconds |-> duration_seconds]

\* PlaybackEvent(station_id=..., track_id=..., timestamp=utcnow(), duration_seconds=...)
PlaybackEvent(id, station_id, track_id, timestamp, duration_seconds) ==
    [id |-> id, station_id |-> station_id, track_id |-> track_id,
     timestamp |-> timestamp, duration_seconds |-> duration_seconds]

\* faulty variant: the columns are nullable
NotNullOff(e) == TRUE

\* nullable=False on station_id, track_id, timestamp
NotNullOk(e) ==
    e.station_id # None /\ e.track_id # None /\ e.timestamp # None

\* ForeignKey("radio_stations.id"), ForeignKey("tracks.id"): a reference
\* that is not NULL must name an upstream row
ForeignKeysOk(e) ==
    /\ e.station_id = None \/ e.station_id \in Stations
    /\ e.track_id = None \/ e.track_id \in Tracks

\* the INSERT the commit flushes: the table with the row appended
InsertRow(table, e) == table \cup {e}

\* ------------------------------------------------------- ingestion service
\* where storage connectivity is lost during a call, if anywhere
Faults == {"none", "commit", "refresh"}

\* create_playback_event: add, commit, refresh.  A record of the call's
\* outcome: the table afterwards and the event returned (None when it raised).
CreatePlaybackEvent(table, id, clock, station_id, track_id, duration_seconds, fault) ==
    LET event == PlaybackEvent(id, station_id, track_id, clock, duration_seconds)
    IN  IF fault = "commit" \/ ~NotNullOk(event) \/ ~ForeignKeysOk(event)
        THEN [status |-> "commit_failed", table |-> table, event |-> None]
        ELSE LET stored == InsertRow(table, event)
             IN  IF fault = "refresh"
                 THEN [status |-> "refresh_failed", table |-> stored, event |-> None]
                 ELSE [status |-> "ok", table |-> stored,
                       event |-> CHOOSE r \in stored : r.id = event.id]

\* ------------------------------------------------------ aggregation service
Min(a, b) == IF a <= b THEN a ELSE b

\* faulty variant: ORDER BY timestamp ASC
OrderByTimestampAsc(S) ==
    {q \in [1..Cardinality(S) -> S] :
        /\ \A i, j \in 1..Cardinality(S) : i # j => q[i] # q[j]
        /\ \A i, j \in 1..Cardinality(S) : i < j => q[i].timestamp <= q[j].timestamp}

\* ORDER BY timestamp DESC: every order of the rows the database may return
\* (rows of equal timestamp come in any order)
OrderByTimestampDesc(S) ==
    {q \in [1..Cardinality(S) -> S] :
        /\ \A i, j \in 1..Cardinality(S) : i # j => q[i] # q[j]
        /\ \A i, j \in 1..Cardinality(S) : i < j => q[i].timestamp >= q[j].timestamp}

\* LIMIT n
Limit(q, n) == SubSeq(q, 1, Min(n, Len(q)))

\* faulty variant: the station listing filters on the track column
GetPlaybackEventsByStationOnTrack(table, station_id, limit) ==
    {Limit(q, limit) :
        q \in OrderByTimestampDesc({r \in table : r.track_id = station_id})}

\* get_playback_events_by_station: the results the query may return
GetPlaybackEventsByStation(table, station_id, limit) ==
    {Limit(q, limit) :
        q \in OrderByTimestampDesc({r \in table : r.station_id = station_id})}

\* get_playback_events_by_track: the results the query may return
GetPlaybackEventsByTrack(table, track_id, limit) ==
    {Limit(q, limit) :
        q \in OrderByTimestampDesc({r \in table : r.track_id = track_id})}

\* faulty variant: the argument is tested like an integer, 0 being false
TruthyNonZero(x) == x # None /\ x # 0

\* truth value of a UUID or datetime argument in "if station_id:": these
\* objects define no __bool__, so only None is false
Truthy(x) == x # None

\* "x or 0" on an integer or None
OrZero(x) == IF x = None \/ x = 0 THEN 0 ELSE x

RECURSIVE SumOf(_)
SumOf(S) ==
    IF S = {} THEN 0
    ELSE LET r == CHOOSE x \in S : TRUE
         IN  r.duration_seconds + SumOf(S \ {r})

\* func.sum(duration_seconds): NULLs are skipped; NULL when nothing is summed
SqlSum(S) ==
    LET nonNull == {r \in S : r.duration_seconds # None}
    IN  IF nonNull = {} THEN None ELSE SumOf(nonNull)

\* faulty variant: func.count(duration_seconds)
SqlCountDurations(S) == Cardinality({r \in S : r.duration_seconds # None})

\* func.count(id)
SqlCount(S) == Cardinality({r \in S : r.id # None})

\* get_playback_statistics
GetPlaybackStatistics(table, station_id, start_date, end_date) ==
    LET q1 == IF Truthy(station_id)
              THEN {r \in table : r.station_id = station_id} ELSE table
        q2 == IF Truthy(start_date)
              THEN {r \in q1 : r.timestamp >= start_date} ELSE q1
        q3 == IF Truthy(end_date)
              THEN {r \in q2 : r.timestamp <= end_date} ELSE q2
    IN  [total_plays |-> OrZero(SqlCount(q3)),
         total_duration_seconds |-> OrZero(SqlSum(q3))]

\* ------------------------------------------------ service calls (any caller)
StationArgs == Stations \cup {GhostId, None}
TrackArgs == Tracks \cup {GhostId, None}
DurationArgs == Durations \cup {None}
LimitArgs == (0..MaxLimit) \cup {DefaultLimit}
DateArgs == {None} \cup (0..MaxTime)

\* PlaybackEventService(session).create_playback_event(...)
CreateCall(station_id, track_id, duration_seconds, fault) ==
    /\ resp = NoResp
    /\ Cardinality(rows) < MaxRows
    /\ LET out == CreatePlaybackEvent(rows, nextId, now, station_id, track_id,
                                      duration_seconds, fault)
       IN  /\ rows' = out.table
           /\ nextId' = IF out.status = "commit_failed" THEN nextId ELSE nextId + 1
           /\ resp' = [op |-> "create", station_id |-> station_id,
                       track_id |-> track_id,
                       duration_seconds |-> duration_seconds,
                       status |-> out.status, event |-> out.event]
    /\ UNCHANGED <<now, consumerVars>>

\* PlaybackEventService(session).get_playback_events_by_station(...)
ListByStationCall(station_id, limit) ==
    /\ resp = NoResp
    /\ \E q \in GetPlaybackEventsByStation(rows, station_id, limit) :
          resp' = [op |-> "list_by_station", station_id |-> station_id,
                   limit |-> limit, events |-> q]
    /\ UNCHANGED <<rows, nextId, now, consumerVars>>

\* PlaybackEventService(session).get_playback_events_by_track(...)
ListByTrackCall(track_id, limit) ==
    /\ resp = NoResp
    /\ \E q \in GetPlaybackEventsByTrack(rows, track_id, limit) :
          resp' = [op |-> "list_by_track", track_id |-> track_id,
                   limit |-> limit, events |-> q]
    /\ UNCHANGED <<rows, nextId, now, consumerVars>>

\* PlaybackEventService(session).get_playback_statistics(...)
StatisticsCall(station_id, start_date, end_date) ==
    /\ resp = NoResp
    /\ resp' = [op |-> "statistics", station_id |-> station_id,
                start_date |-> start_date, end_date |-> end_date,
                statistics |-> GetPlaybackStatistics(rows, station_id,
                                                     start_date, end_date)]
    /\ UNCHANGED <<rows, nextId, now, consumerVars>>

\* the wall clock moves on
Tick ==
    /\ resp = NoResp
    /\ now < MaxTime
    /\ now' = now + 1
    /\ UNCHANGED <<rows, nextId, resp, consumerVars>>

\* the service method returns: its caller takes the response
Return ==
    /\ resp # NoResp
    /\ resp' = NoResp
    /\ UNCHANGED <<rows, nextId, now, consumerVars>>

Create == \E s \in StationArgs, t \in TrackArgs, d \in DurationArgs, f \in Faults :
              CreateCall(s, t, d, f)
ListByStation == \E s \in Stations \cup {GhostId}, n \in LimitArgs : ListByStationCall(s, n)
ListByTrack == \E t \in Tracks \cup {GhostId}, n \in LimitArgs : ListByTrackCall(t, n)
Statistics == \E s \in Stations \cup {None}, a \in DateArgs, b \in DateArgs :
                  StatisticsCall(s, a, b)

\* ------------------------------------------------------- message payloads
\* a text is a sequence of characters: 0..15 the hex digits, then '-' and 'g'
Hyphen == 16
NonHex == 17

RECURSIVE Pow16(_)
Pow16(n) == IF n = 0 THEN 1 ELSE 16 * Pow16(n - 1)

\* str(uuid) without and with a hyphen
HexText(u) == [i \in 1..HexLen |-> (u \div Pow16(HexLen - i)) % 16]
HyphenText(u) == <<Head(HexText(u)), Hyphen>> \o Tail(HexText(u))
\* a text that is no identifier: a non-hex character in it
BadText(u) == <<NonHex>> \o Tail(HexText(u))

StationTexts == {HexText(1), HyphenText(1), HexText(GhostId), BadText(1)}
TrackTexts == {HexText(0), BadText(0)}
KeySets == {{"station_id", "track_id", "duration_seconds"},
            {"station_id", "track_id"},
            {"station_id", "duration_seconds"},
            {"track_id", "duration_seconds"}}

\* the payloads the topic may carry (message.value, a dict)
Messages ==
    {[k \in D |-> CASE k = "station_id" -> s
                    [] k = "track_id" -> t
                    [] OTHER -> 3] :
        D \in KeySets, s \in StationTexts, t \in TrackTexts}

RECURSIVE HexValue(_)
HexValue(s) == IF s = <<>> THEN 0 ELSE 16 * HexValue(SubSeq(s, 1, Len(s) - 1)) + s[Len(s)]

\* uuid.UUID(hex): hyphens are dropped, then HexLen hex digits are required;
\* the identifier, or None where UUID() raises ValueError
UUIDFromText(s) ==
    LET hex == SelectSeq(s, LAMBDA c : c # Hyphen)
    IN  IF Len(hex) = HexLen /\ \A i \in 1..Len(hex) : hex[i] < 16
        THEN HexValue(hex) ELSE None

\* UUID(message[key]): None where it raises (KeyError, ValueError)
ParseId(message, key) ==
    IF key \in DOMAIN message THEN UUIDFromText(message[key]) ELSE None

\* message.get("duration_seconds")
GetDuration(message) ==
    IF "duration_seconds" \in DOMAIN message THEN message["duration_seconds"] ELSE None

\* process_message as one call: parse, persist through a session of its
\* own, count.  Every failure is swallowed; the record tells what happened.
ProcessMessage(table, id, clock, message, fault) ==
    LET s == ParseId(message, "station_id")
        t == ParseId(message, "track_id")
    IN  IF s = None \/ t = None
        THEN [status |-> "parse_failed", table |-> table, counted |-> 0]
        ELSE LET out == CreatePlaybackEvent(table, id, clock, s, t,
                                            GetDuration(message), fault)
             IN  [status |-> out.status, table |-> out.table,
                  counted |-> IF out.status = "ok" THEN 1 ELSE 0]

\* await consumer.process_message(message), called directly
ProcessMessageCall(message, fault) ==
    /\ resp = NoResp
    /\ Cardinality(rows) < MaxRows
    /\ LET out == ProcessMessage(rows, nextId, now, message, fault)
       IN  /\ rows' = out.table
           /\ nextId' = IF out.table = rows THEN nextId ELSE nextId + 1
           /\ counter' = counter + out.counted
           /\ resp' = [op |-> "process_message", status |-> out.status]
    /\ UNCHANGED <<now, hpc, cpc, running, conn, loop, cur, task, fetched, events>>
    /\ UNCHANGED <<singletonVars, starts, late, stopReq>>

ProcessOne == \E m \in Messages, f \in Faults : ProcessMessageCall(m, f)

\* ------------------------------------------------------------ consumer loop
\* an entry of the history of process_message runs
\* (k: the message's number; nrows: the size of the table at that point)
Event(ev, k, malformed, outcome, nrows) ==
    [ev |-> ev, k |-> k, malformed |-> malformed, outcome |-> outcome,
     nrows |-> nrows]

\* a payload the topic's schema rules out: an identifier key is absent or
\* its text is not HexLen hex digits once the hyphens are dropped
Malformed(message) ==
    \E key \in {"station_id", "track_id"} :
        \/ key \notin DOMAIN message
        \/ LET hex == SelectSeq(message[key], LAMBDA c : c # Hyphen)
           IN  Len(hex) # HexLen \/ \E i \in 1..Len(hex) : hex[i] > 15

\* the threads that call get_consumer(): lifespan startup, and one more caller
Callers == {"lifespan", "other"}

\* get_consumer(): if _consumer is None
GetConsumerCheck(c) ==
    /\ resp = NoResp
    /\ gc[c] \in {"idle", "done"}
    /\ gc' = [gc EXCEPT ![c] = IF _consumer = None THEN "construct" ELSE "return"]
    /\ UNCHANGED <<rows, nextId, now, resp, hpc, cpc, running, conn, loop, cur,
                   task, counter, fetched, events, _consumer, _consumer_thread,
                   made, got, starts, late, stopReq>>

\* get_consumer(): _consumer = PlaybackEventConsumer()
GetConsumerConstruct(c) ==
    /\ resp = NoResp
    /\ gc[c] = "construct"
    /\ made' = made + 1
    /\ _consumer' = made + 1
    /\ gc' = [gc EXCEPT ![c] = "return"]
    /\ UNCHANGED <<rows, nextId, now, resp, hpc, cpc, running, conn, loop, cur,
                   task, counter, fetched, events, _consumer_thread, got,
                   starts, late, stopReq>>

\* get_consumer(): return _consumer
GetConsumerReturn(c) ==
    /\ resp = NoResp
    /\ gc[c] = "return"
    /\ got' = [got EXCEPT ![c] = _consumer]
    /\ gc' = [gc EXCEPT ![c] = "done"]
    /\ UNCHANGED <<rows, nextId, now, resp, hpc, cpc, running, conn, loop, cur,
                   task, counter, fetched, events, _consumer, _consumer_thread,
                   made, starts, late, stopReq>>

\* lifespan startup: consumer = get_consumer()
LifespanGetConsumer ==
    /\ hpc = "init"
    /\ gc["lifespan"] # "done"
    /\ \/ GetConsumerCheck("lifespan")
       \/ GetConsumerConstruct("lifespan")
       \/ GetConsumerReturn("lifespan")

\* get_consumer() called from another thread of the process
OtherGetConsumer ==
    \/ GetConsumerCheck("other")
    \/ GetConsumerConstruct("other")
    \/ GetConsumerReturn("other")

\* lifespan startup: _consumer_thread = threading.Thread(target=consumer.start,
\* daemon=True); _consumer_thread.start(); then the application serves
Lifespan ==
    /\ resp = NoResp
    /\ hpc = "init"
    /\ gc["lifespan"] = "done"
    /\ _consumer_thread' = got["lifespan"]
    /\ hpc' = "serving"
    /\ cpc' = "start"
    /\ starts' = starts + 1
    /\ UNCHANGED <<rows, nextId, now, resp, running, conn, loop, cur, task,
                   counter, fetched, events, _consumer, made, gc, got, late,
                   stopReq>>

\* start() is called again on a consumer whose earlier start() has ended
Restart ==
    /\ resp = NoResp
    /\ cpc \in {"done", "dead"}
    /\ starts < MaxStarts
    /\ cpc' = "start"
    /\ starts' = starts + 1
    /\ stopReq' = FALSE
    /\ UNCHANGED <<rows, nextId, now, resp, hpc, running, conn, loop, cur, task,
                   counter, fetched, events, singletonVars, late>>

\* start(): self.running = True; self.consumer.connect() succeeds
StartConnects ==
    /\ resp = NoResp
    /\ cpc = "start"
    /\ running' = TRUE
    /\ conn' = "open"
    /\ cpc' = "fetch"
    /\ UNCHANGED <<rows, nextId, now, resp, hpc, loop, cur, task, counter,
                   fetched, events>>
    /\ UNCHANGED <<singletonVars, starts, late, stopReq>>

\* faulty variant: start() runs in the host itself, so the error ends startup
StartConnectFailsInHost ==
    /\ resp = NoResp
    /\ cpc = "start"
    /\ running' = TRUE
    /\ cpc' = "dead"
    /\ hpc' = "failed"
    /\ UNCHANGED <<rows, nextId, now, resp, conn, loop, cur, task,
                   counter, fetched, events>>
    /\ UNCHANGED <<singletonVars, starts, late, stopReq>>

\* start(): self.running = True; self.consumer.connect() raises, outside
\* the try block: the exception leaves start() and the thread ends
StartConnectFails ==
    /\ resp = NoResp
    /\ cpc = "start"
    /\ running' = TRUE
    /\ cpc' = "dead"
    /\ UNCHANGED <<rows, nextId, now, resp, hpc, conn, loop, cur, task,
                   counter, fetched, events>>
    /\ UNCHANGED <<singletonVars, starts, late, stopReq>>

\* for message in self.consumer.consume(): the blocking fetch yields
Fetch ==
    /\ resp = NoResp
    /\ cpc = "fetch"
    /\ fetched < MaxMsgs
    /\ \E m \in Messages : cur' = m
    /\ fetched' = fetched + 1
    /\ cpc' = "check"
    /\ UNCHANGED <<rows, nextId, now, resp, hpc, running, conn, loop, task,
                   counter, events>>
    /\ late' = ~running
    /\ UNCHANGED <<singletonVars, starts, stopReq>>

\* consume() ends its iteration or raises: on to the finally block
ConsumeStops ==
    /\ resp = NoResp
    /\ cpc = "fetch"
    /\ cpc' = "finally"
    /\ UNCHANGED <<rows, nextId, now, resp, hpc, running, conn, loop, cur,
                   task, counter, fetched, events>>
    /\ UNCHANGED <<singletonVars, starts, late, stopReq>>

\* faulty variant: the flag is not consulted once a message has been fetched
CheckRunningAlways ==
    /\ resp = NoResp
    /\ cpc = "check"
    /\ cpc' = "dispatch" /\ cur' = cur
    /\ UNCHANGED <<rows, nextId, now, resp, hpc, running, conn, loop, task,
                   counter, fetched, events>>
    /\ UNCHANGED <<singletonVars, starts, late, stopReq>>

\* if not self.running: break
CheckRunning ==
    /\ resp = NoResp
    /\ cpc = "check"
    /\ IF running
       THEN cpc' = "dispatch" /\ cur' = cur
       ELSE cpc' = "finally" /\ cur' = NoMsg
    /\ UNCHANGED <<rows, nextId, now, resp, hpc, running, conn, loop, task,
                   counter, fetched, events>>
    /\ UNCHANGED <<singletonVars, starts, late, stopReq>>

\* faulty variant: the coroutine is scheduled and start() goes on to its next fetch
AfterDispatchNoWait == "fetch"

\* where start() stands once run_until_complete has been called:
\* blocked until the coroutine completes
AfterDispatch == "await"

\* _process_sync: the event loop is made on first use; run_until_complete
\* raises RuntimeError on a closed loop (caught by start()'s except Exception)
ProcessSync ==
    /\ resp = NoResp
    /\ cpc = "dispatch"
    /\ LET lp == IF loop = "none" THEN "open" ELSE loop
       IN  /\ loop' = lp
           /\ IF lp = "closed"
              THEN /\ cpc' = "finally"
                   /\ cur' = NoMsg
                   /\ UNCHANGED <<task, events>>
              ELSE /\ cpc' = AfterDispatch
                   /\ task' = [pc |-> "parse"]
                   /\ events' = Append(events,
                          Event("begin", fetched, Malformed(cur), "-",
                                Cardinality(rows)))
                   /\ cur' = cur
    /\ UNCHANGED <<rows, nextId, now, resp, hpc, running, conn, counter, fetched>>
    /\ UNCHANGED <<singletonVars, starts, late, stopReq>>

\* where start() stands when the coroutine has completed (or raised into
\* its own except block): the for loop fetches the next message
AfterTask(pc) == IF pc = "await" THEN "fetch" ELSE pc

\* faulty variant: no except block; the error leaves process_message and ends the loop
HandleFailureReraise(outcome, nrows) ==
    /\ task' = NoTask
    /\ cpc' = "finally"
    /\ events' = Append(events,
           Event("end", events[Len(events)].k, events[Len(events)].malformed,
                 outcome, nrows))
    /\ UNCHANGED <<running, counter>>

\* faulty variant: the handler gives up consuming after a failure
HandleFailureStops(outcome, nrows) ==
    /\ task' = NoTask
    /\ cpc' = AfterTask(cpc)
    /\ running' = FALSE
    /\ events' = Append(events,
           Event("end", events[Len(events)].k, events[Len(events)].malformed,
                 outcome, nrows))
    /\ UNCHANGED counter

\* faulty variant: the handler runs the failed message once more
HandleFailureRetry(outcome, nrows) ==
    /\ events' = events \o
           <<Event("end", events[Len(events)].k, events[Len(events)].malformed,
                   outcome, nrows),
             Event("begin", events[Len(events)].k, events[Len(events)].malformed,
                   "-", nrows)>>
    /\ UNCHANGED <<task, cpc, running, counter>>

\* faulty variant: the metric is bumped for every message, failed ones included
HandleFailureCounts(outcome, nrows) ==
    /\ task' = NoTask
    /\ cpc' = AfterTask(cpc)
    /\ counter' = counter + 1
    /\ events' = Append(events,
           Event("end", events[Len(events)].k, events[Len(events)].malformed,
                 outcome, nrows))
    /\ UNCHANGED running

\* except Exception as e: logger.error(...); the coroutine returns normally
HandleFailure(outcome, nrows) ==
    /\ task' = NoTask
    /\ cpc' = AfterTask(cpc)
    /\ events' = Append(events,
           Event("end", events[Len(events)].k, events[Len(events)].malformed,
                 outcome, nrows))
    /\ UNCHANGED <<running, counter>>

\* process_message: station_id = UUID(message["station_id"]); track_id = ...;
\* duration_seconds = message.get("duration_seconds")
ParseMessage ==
    /\ resp = NoResp
    /\ task.pc = "parse"
    /\ LET s == ParseId(cur, "station_id")
           t == ParseId(cur, "track_id")
       IN  IF s = None \/ t = None
           THEN HandleFailure("parse_failed", Cardinality(rows))
           ELSE /\ task' = [pc |-> "create", station_id |-> s, track_id |-> t,
                            duration_seconds |-> GetDuration(cur)]
                /\ UNCHANGED <<cpc, events, running, counter>>
    /\ cur' = NoMsg
    /\ UNCHANGED <<rows, nextId, now, resp, hpc, conn, loop, fetched>>
    /\ UNCHANGED <<singletonVars, starts, late, stopReq>>

\* process_message: async with AsyncSessionLocal() as session:
\*     await PlaybackEventService(session).create_playback_event(...)
CreateInSession ==
    /\ resp = NoResp
    /\ task.pc = "create"
    /\ Cardinality(rows) < MaxRows
    /\ \E fault \in Faults :
         LET out == CreatePlaybackEvent(rows, nextId, now, task.station_id,
                        task.track_id, task.duration_seconds, fault)
         IN  /\ rows' = out.table
             /\ nextId' = IF out.status = "commit_failed" THEN nextId ELSE nextId + 1
             /\ IF out.status = "ok"
                THEN /\ task' = [pc |-> "metric"]
                     /\ UNCHANGED <<cpc, events, running, counter>>
                ELSE HandleFailure(out.status, Cardinality(out.table))
    /\ UNCHANGED <<now, resp, hpc, conn, loop, cur, fetched>>
    /\ UNCHANGED <<singletonVars, starts, late, stopReq>>

\* process_message: kafka_messages_consumed.labels(...).inc(); logger.info(...)
RecordMetric ==
    /\ resp = NoResp
    /\ task.pc = "metric"
    /\ counter' = counter + 1
    /\ task' = NoTask
    /\ cpc' = AfterTask(cpc)
    /\ events' = Append(events,
           Event("end", events[Len(events)].k, events[Len(events)].malformed,
                 "ok", Cardinality(rows)))
    /\ UNCHANGED <<rows, nextId, now, resp, hpc, running, conn, loop, cur, fetched>>
    /\ UNCHANGED <<singletonVars, starts, late, stopReq>>

\* faulty variant: stop() clears the flag and leaves the source connection alone
StopEffectKeepsConnection ==
    /\ running' = FALSE
    /\ conn' = conn
    /\ loop' = IF loop = "open" /\ task = NoTask THEN "closed" ELSE loop

\* stop(), as its caller leaves the consumer: loop.close() raises
\* RuntimeError on a loop that is running a coroutine and leaves it open
StopEffect ==
    /\ running' = FALSE
    /\ conn' = "closed"
    /\ loop' = IF loop = "open" /\ task = NoTask THEN "closed" ELSE loop

\* stop(): self.loop.close() raises on a loop that is running a coroutine
StopRaises == loop = "open" /\ task # NoTask

\* finally: self.stop(), on the consumer thread
Finally ==
    /\ resp = NoResp
    /\ cpc = "finally"
    /\ StopEffect
    /\ cpc' = "done"
    /\ UNCHANGED <<rows, nextId, now, resp, hpc, cur, task, counter, fetched, events>>
    /\ UNCHANGED <<singletonVars, starts, late, stopReq>>

\* stop() called from another thread
Stop ==
    /\ resp = NoResp
    /\ hpc = "serving"
    /\ StopEffect
    /\ resp' = [op |-> "stop", raised |-> StopRaises]
    /\ stopReq' = TRUE
    /\ UNCHANGED <<rows, nextId, now, hpc, cpc, cur, task, counter,
                   fetched, events, singletonVars, starts, late>>

Init ==
    /\ rows = {}
    /\ nextId = 1
    /\ now = 0
    /\ resp = NoResp
    /\ hpc = "init"
    /\ cpc = "idle"
    /\ running = FALSE
    /\ conn = "new"
    /\ loop = "none"
    /\ cur = NoMsg
    /\ task = NoTask
    /\ counter = 0
    /\ fetched = 0
    /\ events = <<>>
    /\ _consumer = None
    /\ _consumer_thread = None
    /\ made = 0
    /\ gc = [c \in Callers |-> "idle"]
    /\ got = [c \in Callers |-> None]
    /\ starts = 0
    /\ late = FALSE
    /\ stopReq = FALSE

NextService ==
    \/ Create
    \/ ListByStation
    \/ ListByTrack
    \/ Statistics
    \/ ProcessOne
    \/ Return
    \/ Tick

SpecService == Init /\ [][NextService]_vars

Next ==
    \/ Tick
    \/ Return
    \/ LifespanGetConsumer
    \/ Lifespan
    \/ Restart
    \/ StartConnects
    \/ StartConnectFails
    \/ Fetch
    \/ ConsumeStops
    \/ CheckRunning
    \/ ProcessSync
    \/ ParseMessage
    \/ CreateInSession
    \/ RecordMetric
    \/ Finally
    \/ Stop

Spec == Init /\ [][Next]_vars

\* the process with a second thread that calls get_consumer()
NextSingleton == Next \/ OtherGetConsumer

SpecSingleton == Init /\ [][NextSingleton]_vars

\* ================================================================== claims
\* the runs of process_message in the history: run r is events[2r-1] (its
\* begin) and events[2r] (its end)
Runs == {r \in 1..Len(events) : 2 * r <= Len(events)}
BeginOf(r) == events[2 * r - 1]
EndOf(r) == events[2 * r]
\* this step ends a run of process_message
RunEnds == Len(events') = Len(events) + 1 /\ events'[Len(events')].ev = "end"
LastEvent == events[Len(events)]

\* C1: a message that lacks station_id or track_id, or whose identifier is no
\* valid UUID, ends in the per-message handler: it inserts no row, no error
\* leaves process_message, the loop goes on to its next fetch with the running
\* flag untouched; a malformed message followed by a valid one that is
\* persisted leaves exactly one new row.
C1_MalformedSkipped ==
    /\ [](\A r \in Runs :
            BeginOf(r).malformed =>
                /\ EndOf(r).outcome = "parse_failed"
                /\ EndOf(r).nrows = BeginOf(r).nrows
                /\ (r + 1 \in Runs /\ EndOf(r + 1).outcome = "ok"
                        => EndOf(r + 1).nrows = BeginOf(r).nrows + 1))
    /\ [][RunEnds /\ events'[Len(events')].malformed =>
            /\ rows' = rows
            /\ counter' = counter
            /\ running' = running
            /\ cpc = "await" /\ cpc' = "fetch"]_vars

C1_Witness ==
    /\ Len(events) = 4
    /\ BeginOf(1).malformed /\ EndOf(1).outcome = "parse_failed"
    /\ ~BeginOf(2).malformed /\ EndOf(2).outcome = "ok"
    /\ Cardinality(rows) = 1
    /\ running /\ cpc = "fetch"

\* C2: a failure of the persist step (a station_id no upstream row has, lost
\* connectivity on commit or on the re-read) is caught per message: the loop
\* goes on to its next fetch, the running flag is untouched, and a later
\* message that is persisted adds its row.
C2_PersistFailureCaught ==
    /\ [](\A r \in Runs :
            /\ EndOf(r).outcome \in {"parse_failed", "commit_failed",
                                     "refresh_failed", "ok"}
            /\ EndOf(r).outcome = "commit_failed" => EndOf(r).nrows = BeginOf(r).nrows
            /\ (EndOf(r).outcome \in {"commit_failed", "refresh_failed"}
                  /\ r + 1 \in Runs /\ EndOf(r + 1).outcome = "ok")
                    => EndOf(r + 1).nrows = EndOf(r).nrows + 1)
    /\ [][RunEnds /\ events'[Len(events')].outcome
                        \in {"commit_failed", "refresh_failed"} =>
            /\ running' = running
            /\ counter' = counter
            /\ cpc = "await" /\ cpc' = "fetch"]_vars

C2_Witness ==
    /\ Len(events) = 4
    /\ EndOf(1).outcome = "commit_failed"
    /\ EndOf(2).outcome = "ok"
    /\ Cardinality(rows) = 1
    /\ running /\ cpc = "fetch"

\* C3: messages are processed strictly one after another in delivery order:
\* the history alternates begin k, end k with k increasing, at most one run
\* is open, and the loop holds no next message while a run is open.
C3_Sequential ==
    /\ \A i \in DOMAIN events :
          /\ events[i].ev = (IF i % 2 = 1 THEN "begin" ELSE "end")
          /\ i % 2 = 0 => events[i].k = events[i - 1].k
          /\ (i % 2 = 1 /\ i > 1) => events[i].k > events[i - 2].k
          /\ events[i].k <= fetched
    /\ task # NoTask <=> (Len(events) % 2 = 1)
    /\ task # NoTask => cpc = "await" /\ LastEvent.k = fetched
    /\ cpc = "await" => task # NoTask

C3_Witness ==
    /\ Len(events) = 3
    /\ events[2].k = 1 /\ events[3].ev = "begin" /\ events[3].k = 2
    /\ task # NoTask

\* C4: no message is processed twice: every message has at most one run in
\* the history (exactly one once the loop has handed it to process_message),
\* a run inserts at most one row, and the table never holds more rows than
\* messages were fetched.
C4_OneAttempt ==
    /\ \A k \in 1..fetched :
          Cardinality({i \in DOMAIN events :
                          events[i].ev = "begin" /\ events[i].k = k}) <= 1
    /\ (cpc = "await" \/ (cpc = "fetch" /\ events # <<>> /\ LastEvent.k = fetched)) =>
          Cardinality({i \in DOMAIN events :
                          events[i].ev = "begin" /\ events[i].k = fetched}) = 1
    /\ \A r \in Runs : EndOf(r).nrows - BeginOf(r).nrows \in {0, 1}
    /\ Cardinality(rows) <= fetched
    /\ counter <= fetched

C4_Witness ==
    /\ fetched = 2 /\ Len(events) = 4
    /\ EndOf(1).outcome = "refresh_failed"
    /\ EndOf(2).outcome = "commit_failed"
    /\ Cardinality(rows) = 1
    /\ cpc = "fetch"

\* the sum of the durations of S, counted value by value (NULL counts nothing)
RECURSIVE WeightedCount(_, _)
WeightedCount(D, S) ==
    IF D = {} THEN 0
    ELSE LET d == CHOOSE x \in D : TRUE
         IN  d * Cardinality({r \in S : r.duration_seconds = d})
                 + WeightedCount(D \ {d}, S)

ReadOps == {"list_by_station", "list_by_track", "statistics"}

\* C5: a create_playback_event call that succeeds adds exactly one row, with
\* the station_id, track_id and duration_seconds it was given and the clock's
\* instant at the call as timestamp; the rows there before are untouched.
C5_CreatePersistsOne ==
    /\ [](resp.op = "create" /\ resp.status = "ok" =>
            /\ resp.event \in rows
            /\ resp.event.station_id = resp.station_id
            /\ resp.event.track_id = resp.track_id
            /\ resp.event.duration_seconds = resp.duration_seconds
            /\ resp.event.timestamp = now
            /\ resp.station_id \in Stations /\ resp.track_id \in Tracks)
    /\ [][(resp = NoResp /\ resp'.op = "create" /\ resp'.status = "ok") =>
            /\ resp'.event \notin rows
            /\ rows' = rows \cup {resp'.event}
            /\ \A r \in rows : r.id # resp'.event.id]_vars

C5_Witness ==
    /\ resp.op = "create" /\ resp.status = "ok"
    /\ resp.duration_seconds = None
    /\ now = 1
    /\ Cardinality(rows) = 2

\* C6: get_playback_statistics without filters counts every row and sums the
\* durations that are not null: a row of null duration counts as one play
\* and adds nothing to the total.
C6_StatisticsUnfiltered ==
    (resp.op = "statistics" /\ resp.station_id = None
        /\ resp.start_date = None /\ resp.end_date = None) =>
        /\ resp.statistics.total_plays = Cardinality(rows)
        /\ resp.statistics.total_duration_seconds = WeightedCount(Durations, rows)

C6_Witness ==
    /\ resp.op = "statistics" /\ resp.station_id = None
    /\ resp.start_date = None /\ resp.end_date = None
    /\ \E r \in rows : r.duration_seconds = None
    /\ \E r \in rows : r.duration_seconds # None
    /\ resp.statistics.total_plays = 2
    /\ resp.statistics.total_duration_seconds = 3

\* a row passes the filters that were supplied
Matches(r, station_id, start_date, end_date) ==
    /\ station_id = None \/ r.station_id = station_id
    /\ start_date = None \/ r.timestamp >= start_date
    /\ end_date = None \/ r.timestamp <= end_date

\* C7: with any combination of station_id, start_date and end_date,
\* get_playback_statistics aggregates exactly the rows that pass every filter
\* supplied; both totals are integers, 0 when no row matches.
C7_StatisticsFilters ==
    resp.op = "statistics" =>
        LET M == {r \in rows : Matches(r, resp.station_id, resp.start_date,
                                       resp.end_date)}
        IN  /\ resp.statistics.total_plays = Cardinality(M)
            /\ resp.statistics.total_duration_seconds = WeightedCount(Durations, M)
            /\ resp.statistics.total_plays \in Nat
            /\ resp.statistics.total_duration_seconds \in Nat
            /\ M = {} => resp.statistics = [total_plays |-> 0,
                                            total_duration_seconds |-> 0]

C7_Witness ==
    /\ resp.op = "statistics"
    /\ resp.station_id = 0 /\ resp.start_date # None /\ resp.end_date = 0
    /\ resp.statistics.total_plays = 1
    /\ Cardinality(rows) = 2

\* q is a newest-first listing of at most limit rows of S
Listing(q, S, limit) ==
    /\ Len(q) = Min(limit, Cardinality(S))
    /\ \A i \in DOMAIN q : q[i] \in S
    /\ \A i, j \in DOMAIN q : i < j => q[i] # q[j] /\ q[i].timestamp >= q[j].timestamp
    /\ \A r \in S : (\A i \in DOMAIN q : q[i] # r) =>
                        \A i \in DOMAIN q : q[i].timestamp >= r.timestamp

\* C8: the listing by station (by track) returns min(limit, n) of the n rows
\* of that station (track), newest first, and leaves out no row newer than
\* one it returns.
C8_Listing ==
    /\ resp.op = "list_by_station" =>
          Listing(resp.events, {r \in rows : r.station_id = resp.station_id},
                  resp.limit)
    /\ resp.op = "list_by_track" =>
          Listing(resp.events, {r \in rows : r.track_id = resp.track_id},
                  resp.limit)

C8_Witness ==
    /\ resp.op = "list_by_station" /\ resp.limit = 1
    /\ Cardinality({r \in rows : r.station_id = resp.station_id}) = 2
    /\ Len(resp.events) = 1
    /\ \E r \in rows : r.timestamp < resp.events[1].timestamp

\* C9: the event a successful create_playback_event returned is in every
\* result a following get_playback_events_by_station of its station (default
\* limit) can give, with the same id, track_id and duration_seconds; such a
\* listing returns every stored row of the station.
C9_RoundTrip ==
    /\ (resp.op = "create" /\ resp.status = "ok") =>
          \A q \in GetPlaybackEventsByStation(rows, resp.station_id, DefaultLimit) :
              \E i \in DOMAIN q :
                  /\ q[i].id = resp.event.id
                  /\ q[i].track_id = resp.track_id
                  /\ q[i].duration_seconds = resp.duration_seconds
    /\ (resp.op = "list_by_station" /\ resp.limit = DefaultLimit) =>
          \A r \in rows : r.station_id = resp.station_id =>
              \E i \in DOMAIN resp.events : resp.events[i] = r

C9_Witness ==
    /\ resp.op = "list_by_station" /\ resp.limit = DefaultLimit
    /\ Len(resp.events) = 2
    /\ resp.events[1].track_id # resp.events[2].track_id

\* C10: the table only grows: every row has station_id, track_id and
\* timestamp set and an id of its own, no step removes or changes a row, and
\* the three read operations leave the table as it was.
C10_AppendOnly ==
    /\ [](\A r \in rows :
            /\ r.station_id # None /\ r.track_id # None /\ r.timestamp # None
            /\ \A r2 \in rows : r2.id = r.id => r2 = r)
    /\ [][/\ rows \subseteq rows'
          /\ (resp = NoResp /\ resp'.op \in ReadOps) => rows' = rows]_vars

C10_Witness ==
    /\ resp.op \in ReadOps
    /\ Cardinality(rows) = 2
    /\ counter = 1

\* C11: a failed connect() ends the consumer thread only: the thread dies in
\* start() before any fetch, it touches no row, counter or message, and the
\* host, already serving, keeps serving.
C11_ConnectFailureIsolated ==
    /\ [](cpc = "dead" => hpc = "serving" /\ task = NoTask /\ cur = NoMsg)
    /\ [][(cpc' = "dead" /\ cpc # "dead") =>
            /\ cpc = "start"
            /\ UNCHANGED <<rows, counter, fetched, events>>]_vars
    /\ [][cpc = "dead" => UNCHANGED <<rows, counter, fetched, events>>]_vars
    /\ [][hpc = "serving" => hpc' = "serving"]_vars

C11_Witness ==
    /\ cpc = "dead" /\ hpc = "serving"
    /\ rows = {} /\ fetched = 0 /\ counter = 0 /\ events = <<>>

\* C12: the running flag is read once per fetched message, before it is
\* processed: a message whose fetch completes after stop() has set the flag
\* false gets no run of process_message (no row, no counter increment), and
\* the loop leaves at that message for its finally block.
C12_StopBreaksLoop ==
    /\ [](late =>
            /\ cpc \notin {"dispatch", "await"}
            /\ task = NoTask
            /\ \A i \in DOMAIN events : events[i].k # fetched)
    /\ [][(late /\ cpc = "check" /\ cpc' # "check") =>
            /\ cpc' = "finally"
            /\ UNCHANGED <<rows, counter, events>>]_vars

C12_Witness ==
    /\ late /\ cpc = "done" /\ fetched = 2
    /\ Len(events) = 2 /\ EndOf(1).outcome = "ok"
    /\ counter = 1 /\ Cardinality(rows) = 1

C14_SuccessCounter ==
    /\ [](counter = Cardinality({r \in Runs : EndOf(r).outcome = "ok"}))
    /\ [][counter' # counter =>
            /\ counter' = counter + 1
            /\ RunEnds
            /\ events'[Len(events')].outcome = "ok"]_vars
    /\ [][(RunEnds /\ events'[Len(events')].outcome # "ok") =>
            counter' = counter]_vars

C14_Witness ==
    /\ fetched = 2 /\ Len(events) = 4
    /\ EndOf(1).outcome = "ok"
    /\ EndOf(2).outcome \in {"parse_failed", "commit_failed"}
    /\ counter = 1

\* C15: once stop() has been called on a consumer whose thread has been
\* launched, the flag stays false while start() runs, so the loop leaves at
\* the next message its fetch returns and start() ends with the consumer
\* stopped; this for a stop() at any point after the launch.
C15_StopEndsLoop ==
    /\ []((stopReq /\ cpc # "dead") => ~running)
    /\ [][(stopReq /\ cpc = "check" /\ cpc' # "check") => cpc' = "finally"]_vars

\* C16: a message reported as failed has inserted no row, whichever storage
\* step of create failed, so whenever no message is in processing the success
\* counter equals the number of rows the consumer has inserted.
C16_FailureInsertsNothing ==
    /\ \A r \in Runs :
          EndOf(r).outcome # "ok" => EndOf(r).nrows = BeginOf(r).nrows
    /\ task = NoTask => counter = Cardinality(rows)

\* C17: whenever start() is not executing (never launched, returned, or left
\* by an error, the failure of connect() included) the running flag is false.
C17_FlagReflectsLoop ==
    cpc \in {"idle", "done", "dead"} => ~running

\* C18: start() works from every stopped state: a consumer that has run, was
\* stopped and is started again is running while its loop runs, and a message
\* delivered after the restart that passes the flag check is handed to
\* process_message.
C18_RestartProcesses ==
    /\ []((starts > 1 /\ cpc \in {"fetch", "check", "dispatch", "await"}
                      /\ ~stopReq) => running)
    /\ [][(starts > 1 /\ cpc = "dispatch" /\ running /\ cpc' # cpc) =>
            (cpc' = "await" /\ task' # NoTask)]_vars

\* C19: stop() is safe in every state: each call returns without raising and
\* leaves the consumer stopped with its connection closed.
C19_StopNeverRaises ==
    resp.op = "stop" => (~resp.raised /\ ~running /\ conn = "closed")

\* C20: exactly one consumer per process: at most one PlaybackEventConsumer is
\* ever constructed, every completed get_consumer() call returned that
\* instance, and the one consumer thread of startup runs on it.
C20_OneConsumer ==
    /\ made <= 1
    /\ \A c \in Callers : got[c] \in {None, 1}
    /\ _consumer \in {None, 1}
    /\ _consumer_thread \in {None, 1}
    /\ (hpc = "serving" => _consumer_thread = 1)

====
